---- MODULE Spec2Model ----
(***************************************************************************)
(* rossa.parameters: expansion of a nested test-parameter specification    *)
(* into an ordered list of setup events, teardown events and test          *)
(* combinations (get_combinations and everything it calls).                *)
(*                                                                         *)
(* Representation of the Python values:                                    *)
(*   name     a sequence of segments [zip, txt]; the string is the         *)
(*            segments joined by "#", a segment with zip = TRUE reading    *)
(*            "zip_" followed by txt ("p#zip_a" is two segments)           *)
(*   value    [isList, items]: a scalar v is [FALSE, <<v>>]                *)
(*   dict     a sequence of [key, val] with distinct keys, in insertion    *)
(*            order                                                        *)
(*   None     the string NoneV where a string is expected                  *)
(***************************************************************************)
EXTENDS Integers, Sequences, FiniteSets, TLC

VARIABLES
  given,         \* the specification as the caller built it
  parameters,    \* the caller's specification object, as it is now
  pc,            \* position in get_combinations
  err,           \* the exception a call ended with, "" for none
  skel,          \* the LoopSkeleton
  combinations,  \* the list get_combinations builds and returns
  k,             \* the outer-combination tuple the for loop is at (from 1)
  calls,         \* calls of get_combinations started on the object
  first,         \* what the first call returned
  flat,          \* a flat mapping given to ParameterCombination
  flatOut        \* its combinations

vars == <<given, parameters, pc, err, skel, combinations, k, calls, first,
          flat, flatOut>>

\* ------------------------------------------------------------------ bounds
MaxLen == 2      \* values of a swept parameter
MaxLevels == 3   \* outer levels, the entry point included
MaxTests == 2    \* leaf tests
MaxKids == 2     \* nested mappings of one mapping
MaxDepth == 2    \* nesting below the entry point

\* ----------------------------------------------------------------- helpers
NoneV == "None"

Seg(z, t) == [zip |-> z, txt |-> t]
Plain(t) == <<Seg(FALSE, t)>>
Zip(t, g) == <<Seg(FALSE, t), Seg(TRUE, g)>>
MkName(base, tag) == IF tag = NoneV THEN Plain(base) ELSE Zip(base, tag)
Scalar(v) == [isList |-> FALSE, items |-> <<v>>]
List(s) == [isList |-> TRUE, items |-> s]
KV(key, val) == [key |-> key, val |-> val]

RECURSIVE SeqProd(_)
SeqProd(s) == IF s = <<>> THEN 1 ELSE Head(s) * SeqProd(Tail(s))

RECURSIVE Concat(_)
Concat(ss) == IF ss = <<>> THEN <<>> ELSE Head(ss) \o Concat(Tail(ss))

Reverse(s) == [i \in 1..Len(s) |-> s[Len(s) + 1 - i]]

\* the positions of s whose element satisfies Test, in order
RECURSIVE Positions(_, _, _)
Positions(s, Test(_), i) ==
  IF i > Len(s) THEN <<>>
  ELSE (IF Test(s[i]) THEN <<i>> ELSE <<>>) \o Positions(s, Test, i + 1)

\* itertools.product over index ranges 1..lens[i]: the first range varies
\* slowest
RECURSIVE Product(_)
Product(lens) ==
  IF lens = <<>> THEN << <<>> >>
  ELSE LET rest == Product(Tail(lens))
           n    == Len(rest)
       IN  [i \in 1..(Head(lens) * n) |->
              <<((i - 1) \div n) + 1>> \o rest[((i - 1) % n) + 1]]

\* d[key] = val on a dict: an existing key keeps its place
Put(d, key, val) ==
  IF \E i \in 1..Len(d) : d[i].key = key
  THEN [i \in 1..Len(d) |-> IF d[i].key = key THEN KV(key, val) ELSE d[i]]
  ELSE Append(d, KV(key, val))

HasKey(d, key) == \E i \in 1..Len(d) : d[i].key = key
Get(d, key) == d[CHOOSE i \in 1..Len(d) : d[i].key = key].val

\* dict(zip(keys, vals))
RECURSIVE DictZip(_, _)
DictZip(keys, vals) ==
  IF keys = <<>> \/ vals = <<>> THEN <<>>
  ELSE LET n == IF Len(keys) < Len(vals) THEN Len(keys) ELSE Len(vals)
       IN  Put(DictZip(SubSeq(keys, 1, n - 1), SubSeq(vals, 1, n - 1)),
               keys[n], vals[n])

\* a | b on dicts
RECURSIVE Merge(_, _)
Merge(a, b) ==
  IF b = <<>> THEN a ELSE Merge(Put(a, Head(b).key, Head(b).val), Tail(b))

\* ------------------------------------------------- ParameterCombination
\* name.split("#")[0]
PureName(name) == name[1].txt

\* the zip segments of a name after its first segment
ZipSegs(name) == Positions(name, LAMBDA sg : sg.zip, 2)

\* get_zip_group: the text between the first "#zip_" and the next "#"
get_zip_group(name) ==
  IF ZipSegs(name) = <<>> THEN NoneV ELSE name[ZipSegs(name)[1]].txt

\* __init__: every value a list
Values(p) == [i \in 1..Len(p) |-> p[i].val.items]
Names(p) == [i \in 1..Len(p) |-> p[i].key]

\* the parameters with len(values) > 1
Swept(p) == Positions(Values(p), LAMBDA v : Len(v) > 1, 1)
shape(p) == [i \in 1..Len(Swept(p)) |-> Len(Values(p)[Swept(p)[i]])]
zip_groups(p) ==
  [i \in 1..Len(Swept(p)) |-> get_zip_group(Names(p)[Swept(p)[i]])]

\* Python truthiness of an Optional[str]
Truthy(s) == s # NoneV /\ s # ""

\* the axes get_zip_index indexes with a range (the others with a slice)
RangeAxes(p, zip_group) ==
  {i \in 1..Len(shape(p)) :
     Truthy(zip_groups(p)[i]) /\ zip_groups(p)[i] = zip_group}

\* mutant: lengths that differ are not reported
ZipMismatch_Never(p, zip_group) == FALSE

\* zip_index[...] = True raises IndexError when the ranges do not broadcast
ZipMismatch(p, zip_group) ==
  \E i, j \in RangeAxes(p, zip_group) : shape(p)[i] # shape(p)[j]

\* mutant: the index is never restricted to the diagonal
get_zip_index_AllTrue(p, zip_group, t) == TRUE

\* get_zip_index at index tuple t of the array of shape(p)
get_zip_index(p, zip_group, t) ==
  \A i, j \in RangeAxes(p, zip_group) : t[i] = t[j]

\* combination_index, flattened in C order
combination_index(p) ==
  LET ts == Product(shape(p))
  IN  [n \in 1..Len(ts) |->
         \A g \in 1..Len(zip_groups(p)) :
            get_zip_index(p, zip_groups(p)[g], ts[n])]

all_combinations(p) ==
  LET ts    == Product([i \in 1..Len(p) |-> Len(Values(p)[i])])
      pure  == [i \in 1..Len(p) |-> PureName(Names(p)[i])]
  IN  [n \in 1..Len(ts) |->
         DictZip(pure, [i \in 1..Len(p) |-> Values(p)[i][ts[n][i]]])]

\* the combinations property: [err, combos]
PCombinations(p) ==
  LET Selected(all, sel) == [n \in 1..Len(sel) |-> all[sel[n]]]
      Indexed(all, i_valid) ==
        IF Len(all) # Len(i_valid)
        THEN [err |-> "IndexError", combos |-> <<>>]
        ELSE [err |-> "",
              combos |-> Selected(all, Positions(i_valid, LAMBDA b : b, 1))]
      Checked(groups) ==
        IF \E g \in 1..Len(groups) : ZipMismatch(p, groups[g])
        THEN [err |-> "ValueError:zip", combos |-> <<>>]
        ELSE Indexed(all_combinations(p), combination_index(p))
  IN  Checked(zip_groups(p))

\* ------------------------------------------------------- specification
(***************************************************************************)
(* A mapping of the specification (a loop level or a leaf test) is a node  *)
(*   [setup, teardown, yv, params, kids]                                   *)
(* setup/teardown: [has, entries], has = FALSE when the key is absent;     *)
(* yv: the 'yield_values' (level) or 'yield' (test) label, NoneV when      *)
(* absent; params: the dict of the values that are not mappings; kids:     *)
(* the values that are mappings, in order.  A setup/teardown entry is      *)
(*   [k, kv, name, sub]  with k in "none" (None), "dict" (a literal        *)
(* mapping kv), "str" (a template name), "list" (a nested list sub).       *)
(* The top-level specification is [hasMain, main, tbl]: tbl is the dict of *)
(* the other top-level keys, each value [k, hasSetup, hasTeardown, params] *)
(* with k in "dict", "list", "scalar".                                     *)
(***************************************************************************)
Absent == [has |-> FALSE, entries |-> <<>>]
Present(es) == [has |-> TRUE, entries |-> es]
ENone == [k |-> "none", kv |-> <<>>, name |-> "", sub |-> <<>>]
EDict(kv) == [k |-> "dict", kv |-> kv, name |-> "", sub |-> <<>>]
EStr(name) == [k |-> "str", kv |-> <<>>, name |-> name, sub |-> <<>>]
EList(sub) == [k |-> "list", kv |-> <<>>, name |-> "", sub |-> sub]
Node(su, td, yv, params, kids) ==
  [setup |-> su, teardown |-> td, yv |-> yv, params |-> params, kids |-> kids]
EmptyDict == Node(Absent, Absent, NoneV, <<>>, <<>>)
Top(kind, hs, ht, params) ==
  [k |-> kind, hasSetup |-> hs, hasTeardown |-> ht, params |-> params]

\* bool(d) of a mapping
NonEmpty(node) == node # EmptyDict
\* any(isinstance(v, dict) for v in node.values())
HasDictValue(node) == node.kids # <<>>

\* ------------------------------------------------------- check_validity
\* mutant: only the first sibling is inspected for nested mappings
ParallelLoops_FirstOnly(next_loop) ==
  Len(next_loop) > 1 /\ HasDictValue(next_loop[1])

\* len(next_loop) > 1 and any(... for next_next_loop in next_loop ...)
ParallelLoops(next_loop) ==
  Len(next_loop) > 1 /\ \E i \in 1..Len(next_loop) : HasDictValue(next_loop[i])

\* the while loop of check_validity, from outer_loop on
RECURSIVE CheckLoop(_)
CheckLoop(outer_loop) ==
  LET next_loop == outer_loop.kids IN
  IF ~(\E i \in 1..Len(next_loop) : NonEmpty(next_loop[i])) THEN ""
  ELSE IF ParallelLoops(next_loop) THEN "ValueError:parallel"
  ELSE CheckLoop(next_loop[1])

\* mutant: the entry point is not looked for
check_validity_NoMainCheck(prm) == CheckLoop(prm.main)

\* "" when the specification passes, else the error raised
check_validity(prm) ==
  IF ~prm.hasMain THEN "ValueError:nomain" ELSE CheckLoop(prm.main)

\* ------------------------------------------------------- fill_template
RECURSIVE flatten_multidimensional_list(_)
flatten_multidimensional_list(lst) ==
  IF lst = <<>> THEN <<>>
  ELSE (IF Head(lst).k = "list"
        THEN flatten_multidimensional_list(Head(lst).sub)
        ELSE <<Head(lst)>>)
       \o flatten_multidimensional_list(Tail(lst))

\* a list of combinations as a list value
CombosEntry(combos) == EList([i \in 1..Len(combos) |-> EDict(combos[i])])

TblIndex(tbl, name) == CHOOSE i \in 1..Len(tbl) : tbl[i].key = name

\* p.pop('setup', None); p.pop('teardown', None) on the template `name`
PopTemplate(tbl, name) ==
  [i \in 1..Len(tbl) |->
     IF tbl[i].key = name
     THEN KV(name, [tbl[i].val EXCEPT !.hasSetup = FALSE, !.hasTeardown = FALSE])
     ELSE tbl[i]]

\* mutant: a string entry is appended as it is
FillOne_Unresolved(tbl, value) == [err |-> "", tbl |-> tbl, out |-> <<value>>]

\* one string entry: [err, tbl, out]
FillOne(tbl, value) ==
  LET Filled(c) ==
        [err |-> c.err, tbl |-> PopTemplate(tbl, value.name),
         out |-> IF c.err = "" THEN <<CombosEntry(c.combos)>> ELSE <<>>]
      Found(p) ==
        IF p.k = "list"
        THEN [err |-> "ValueError:template", tbl |-> tbl, out |-> <<>>]
        ELSE IF p.k # "dict"
        THEN [err |-> "AttributeError", tbl |-> tbl, out |-> <<>>]
        ELSE Filled(PCombinations(p.params))
  IN  IF ~HasKey(tbl, value.name)
      THEN [err |-> "ValueError:template", tbl |-> tbl, out |-> <<>>]
      ELSE Found(Get(tbl, value.name))

\* the for loop of fill_template over the flattened values
RECURSIVE FillFrom(_, _)
FillFrom(tbl, values) ==
  LET Both(one, rest) ==
        [err |-> rest.err, tbl |-> rest.tbl,
         out |-> IF rest.err = "" THEN one.out \o rest.out ELSE <<>>]
      After(one) ==
        IF one.err # "" THEN one
        ELSE Both(one, FillFrom(one.tbl, Tail(values)))
  IN  IF values = <<>> THEN [err |-> "", tbl |-> tbl, out |-> <<>>]
      ELSE After(IF Head(values).k = "str" THEN FillOne(tbl, Head(values))
                 ELSE [err |-> "", tbl |-> tbl, out |-> <<Head(values)>>])

\* fill_template(parameters, values) on a popped value ([has, entries])
fill_template(tbl, values) ==
  IF ~values.has THEN [err |-> "", tbl |-> tbl, out |-> <<>>]
  ELSE FillFrom(tbl, flatten_multidimensional_list(values.entries))

\* ------------------------------------------- _get_indexed_combinations
\* f"__index_{i}"
IndexKey(i) ==
  <<"__index_0", "__index_1", "__index_2", "__index_3", "__index_4",
    "__index_5", "__index_6", "__index_7", "__index_8", "__index_9">>[i + 1]

\* a test combination: the flat mapping kv (with "__index_<n>" and
\* "__index_test"), the "__index" list and the "yield" label
Comb(kv, index, yld) == [kv |-> kv, index |-> index, yld |-> yld]

\* i_inner is None: combinations[i][f"__index_{i_level}"] = i
IndexOuter(combos, i_level) ==
  [i \in 1..Len(combos) |-> Put(combos[i], IndexKey(i_level), i - 1)]

\* the keys the "__index" list reads
IndexKeysMissing(kv, i_level) ==
  \E level \in 0..i_level : ~HasKey(kv, IndexKey(level))

\* [combinations[i][f"__index_{level}"] for level in range(i_level + 1)]
IndexList(kv, i_level) ==
  [level \in 1..(i_level + 1) |-> Get(kv, IndexKey(level - 1))]

\* i_inner given: [err, combos] with combos a list of Comb (yield unset)
IndexInner(combos, i_level, i_inner) ==
  LET Listed(tagged) ==
        IF \E i \in 1..Len(tagged) : IndexKeysMissing(tagged[i], i_level)
        THEN [err |-> "KeyError", combos |-> <<>>]
        ELSE [err |-> "",
              combos |-> [i \in 1..Len(tagged) |->
                            Comb(Put(tagged[i], "__index_test", i_inner),
                                 IndexList(tagged[i], i_level), NoneV)]]
  IN  Listed(IndexOuter(combos, i_level))

\* ----------------------------------------------------- _extract_skeleton
\* the for loop over the tests: test["setup"] = fill_template(...),
\* test["teardown"] = fill_template(...); [err, tbl, tests]
RECURSIVE ResolveTests(_, _)
ResolveTests(tbl, tests) ==
  LET t == Head(tests)
      Rest(su, td, rest) ==
        [err |-> rest.err, tbl |-> rest.tbl,
         tests |-> <<[t EXCEPT !.setup = Present(su.out),
                               !.teardown = Present(td.out)]>>
                   \o rest.tests]
      Teardown(su, td) ==
        IF td.err # ""
        THEN [err |-> td.err, tbl |-> td.tbl,
              tests |-> <<[t EXCEPT !.setup = Present(su.out)]>> \o Tail(tests)]
        ELSE Rest(su, td, ResolveTests(td.tbl, Tail(tests)))
      Setup(su) ==
        IF su.err # ""
        THEN [err |-> su.err, tbl |-> su.tbl, tests |-> tests]
        ELSE Teardown(su, fill_template(su.tbl, t.teardown))
  IN  IF tests = <<>> THEN [err |-> "", tbl |-> tbl, tests |-> <<>>]
      ELSE Setup(fill_template(tbl, t.setup))

\* a popped setup/teardown value as an element of the setups list
Popped(v) == IF v.has THEN EList(v.entries) ELSE ENone

\* the while loop from this_level on: acc = [setups, teardowns, ocs] so
\* far; the result holds the level as the loop leaves it
RECURSIVE ExtractLoop(_, _, _, _, _)
ExtractLoop(tbl, this_level, i_level, yv, acc) ==
  LET yield_values == IF this_level.yv # NoneV THEN this_level.yv ELSE yv
      popped == [this_level EXCEPT !.setup = Absent, !.teardown = Absent,
                                   !.yv = NoneV]
      next_level == this_level.kids
      Result(e, t, node, tests, now) ==
        [err |-> e, tbl |-> t, node |-> node, setups |-> now.setups,
         teardowns |-> now.teardowns, yield_values |-> yield_values,
         tests |-> tests, ocs |-> now.ocs]
      Tests(r, now) ==
        Result(r.err, r.tbl, [popped EXCEPT !.kids = r.tests], r.tests, now)
      Deeper(r) ==
        [r EXCEPT !.node = [popped EXCEPT !.kids = <<r.node>> \o Tail(next_level)]]
      Level(c, now) ==
        IF c.err # "" THEN Result(c.err, tbl, popped, <<>>, now)
        ELSE IF next_level = <<>>
        THEN Result("ValueError:noinner", tbl, popped, <<>>, now)
        ELSE IF ~HasDictValue(next_level[1])
        THEN Tests(ResolveTests(tbl, next_level), now)
        ELSE Deeper(ExtractLoop(tbl, next_level[1], i_level + 1, yield_values,
                                now))
      Combined(c) ==
        Level(c, [setups |-> Append(acc.setups, Popped(this_level.setup)),
                  teardowns |-> Append(acc.teardowns, Popped(this_level.teardown)),
                  ocs |-> Append(acc.ocs, IndexOuter(c.combos, i_level))])
  IN  Combined(PCombinations(this_level.params))

NoSkel ==
  [setups |-> <<>>, teardowns |-> <<>>, yield_values |-> NoneV,
   tests |-> <<>>, outer_combinations |-> <<>>]

\* _extract_skeleton(parameters): [err, parameters, skel]
extract_skeleton(prm) ==
  LET Out(e, t, r, su, td) ==
        [err |-> e,
         parameters |-> [prm EXCEPT !.main = r.node, !.tbl = t],
         skel |-> IF e # "" THEN NoSkel
                  ELSE [setups |-> su.out, teardowns |-> td.out,
                        yield_values |-> r.yield_values, tests |-> r.tests,
                        outer_combinations |-> r.ocs]]
      Teardowns(r, su, td) == Out(td.err, td.tbl, r, su, td)
      Setups(r, su) ==
        IF su.err # "" THEN Out(su.err, su.tbl, r, su, su)
        ELSE Teardowns(r, su, fill_template(su.tbl, Present(r.teardowns)))
      Loop(r) ==
        IF r.err # "" THEN Out(r.err, r.tbl, r, r, r)
        ELSE Setups(r, fill_template(r.tbl, Present(r.setups)))
  IN  Loop(ExtractLoop(prm.tbl, prm.main, 0, NoneV,
                       [setups |-> <<>>, teardowns |-> <<>>, ocs |-> <<>>]))

\* ------------------------------------------------------ get_combinations
NoComb == Comb(<<>>, <<>>, NoneV)
\* {"setup": body} / {"teardown": body}: whole says the value is the list
\* body, otherwise it is the one element of body
Event(type, whole, body) ==
  [type |-> type, whole |-> whole, body |-> body, comb |-> NoComb]
TestComb(c) == [type |-> "comb", whole |-> FALSE, body |-> <<>>, comb |-> c]

\* mutant: the outer tuples are visited last first
OuterTuples_Reversed(sk) ==
  Reverse(Product([i \in 1..Len(sk.outer_combinations) |->
                     Len(sk.outer_combinations[i])]))

\* product(*outer_combinations), as index tuples
OuterTuples(sk) ==
  Product([i \in 1..Len(sk.outer_combinations) |->
             Len(sk.outer_combinations[i])])

\* reduce(operator.ior, outer_combination, {})
RECURSIVE IorAll(_)
IorAll(dicts) ==
  IF dicts = <<>> THEN <<>>
  ELSE Merge(IorAll(SubSeq(dicts, 1, Len(dicts) - 1)), dicts[Len(dicts)])

outer_parameters(sk, t) ==
  IorAll([i \in 1..Len(t) |-> sk.outer_combinations[i][t[i]]])

\* the pairs enumerate(zip(setups, teardowns)) visits after i = 0
MidLevels(sk) ==
  LET n == IF Len(sk.setups) < Len(sk.teardowns) THEN Len(sk.setups)
           ELSE Len(sk.teardowns)
  IN  [i \in 1..(IF n > 1 THEN n - 1 ELSE 0) |-> i]

\* outer_index(i) == 0 and outer_index(i-1) != 0 raises KeyError
RestartKeyError(op, i) ==
  \/ ~HasKey(op, IndexKey(i))
  \/ (Get(op, IndexKey(i)) = 0 /\ ~HasKey(op, IndexKey(i - 1)))

\* outer_index(i) == 0 and outer_index(i-1) != 0
NewLoopStarted(op, i) ==
  Get(op, IndexKey(i)) = 0 /\ Get(op, IndexKey(i - 1)) # 0

\* mutant: a restart appends the teardown only
RestartEvents_NoSetup(sk, i) == <<Event("teardown", FALSE, <<sk.teardowns[i + 1]>>)>>

\* combinations.extend([{"teardown": teardown}]); ...extend([{"setup": setup}])
RestartEvents(sk, i) ==
  <<Event("teardown", FALSE, <<sk.teardowns[i + 1]>>),
    Event("setup", FALSE, <<sk.setups[i + 1]>>)>>

\* the first for loop of the body: [err, out]
Restarts(sk, op) ==
  LET Over(mid) ==
        IF \E n \in 1..Len(mid) : RestartKeyError(op, mid[n])
        THEN [err |-> "KeyError", out |-> <<>>]
        ELSE [err |-> "",
              out |-> Concat([n \in 1..Len(mid) |->
                                IF NewLoopStarted(op, mid[n])
                                THEN RestartEvents(sk, mid[n]) ELSE <<>>])]
  IN  Over(MidLevels(sk))

\* an outer combination as parameters of a ParameterCombination
AsParameters(kv) ==
  [i \in 1..Len(kv) |-> KV(Plain(kv[i].key), Scalar(kv[i].val))]

\* mutant: the outer values win on a key collision
all_parameters_OuterWins(op, test) == Merge(test.params, AsParameters(op))

\* outer_parameters | inner_parameters
all_parameters(op, test) == Merge(AsParameters(op), test.params)

\* one pass of the loop over the tests, for test number i_inner (from 0):
\* [err, out]
TestBlock(sk, op, i_inner) ==
  LET p == sk.tests[i_inner + 1]
      yield_test == IF p.yv # NoneV THEN p.yv ELSE sk.yield_values
      Emitted(c) ==
        IF c.err # "" THEN [err |-> c.err, out |-> <<>>]
        ELSE [err |-> "",
              out |-> <<Event("setup", TRUE, p.setup.entries)>>
                      \o [i \in 1..Len(c.combos) |->
                            TestComb([c.combos[i] EXCEPT !.yld = yield_test])]
                      \o <<Event("teardown", TRUE, p.teardown.entries)>>]
      Combined(pcomb) ==
        IF pcomb.err # "" THEN [err |-> pcomb.err, out |-> <<>>]
        ELSE Emitted(IndexInner(pcomb.combos, Len(sk.setups), i_inner))
  IN  Combined(PCombinations(all_parameters(op, p)))

RECURSIVE TestBlocks(_, _, _)
TestBlocks(sk, op, i_inner) ==
  LET Both(b, rest) ==
        [err |-> rest.err,
         out |-> IF rest.err = "" THEN b.out \o rest.out ELSE <<>>]
      After(b) ==
        IF b.err # "" THEN b ELSE Both(b, TestBlocks(sk, op, i_inner + 1))
  IN  IF i_inner >= Len(sk.tests) THEN [err |-> "", out |-> <<>>]
      ELSE After(TestBlock(sk, op, i_inner))

\* the body of the loop over the outer tuples, for tuple t: [err, out]
LoopBody(sk, t) ==
  LET Tests(r, b) ==
        IF b.err # "" THEN b ELSE [err |-> "", out |-> r.out \o b.out]
      Started(op, r) ==
        IF r.err # "" THEN r ELSE Tests(r, TestBlocks(sk, op, 0))
      Body(op) == Started(op, Restarts(sk, op))
  IN  Body(outer_parameters(sk, t))

\* --- actions
Raise(e) ==
  /\ pc' = "raised" /\ err' = e /\ combinations' = <<>> /\ skel' = NoSkel
  /\ k' = 0

\* get_combinations is entered: check_validity(parameters)
Call ==
  /\ pc = "call"
  /\ \E e \in {check_validity(parameters)} :
       IF e # "" THEN Raise(e)
       ELSE /\ pc' = "extract"
            /\ UNCHANGED <<err, combinations, skel, k>>
  /\ UNCHANGED <<given, parameters, calls, first, flat, flatOut>>

\* _extract_skeleton(parameters); combinations = [{"setup": setups}]
Extract ==
  /\ pc = "extract"
  /\ \E r \in {extract_skeleton(parameters)} :
       /\ parameters' = r.parameters
       /\ IF r.err # "" THEN Raise(r.err)
          ELSE /\ pc' = "loop" /\ skel' = r.skel /\ k' = 1
               /\ combinations' = <<Event("setup", TRUE, r.skel.setups)>>
               /\ UNCHANGED err
  /\ UNCHANGED <<given, calls, first, flat, flatOut>>

\* one iteration of "for outer_combination in product(*outer_combinations)"
Iterate ==
  /\ pc = "loop" /\ k <= Len(OuterTuples(skel))
  /\ \E r \in {LoopBody(skel, OuterTuples(skel)[k])} :
       IF r.err # "" THEN Raise(r.err)
       ELSE /\ combinations' = combinations \o r.out
            /\ k' = k + 1
            /\ UNCHANGED <<pc, err, skel>>
  /\ UNCHANGED <<given, parameters, calls, first, flat, flatOut>>

\* the loop is exhausted: append the reversed teardowns and return
Return ==
  /\ pc = "loop" /\ k > Len(OuterTuples(skel))
  /\ combinations' =
       Append(combinations, Event("teardown", TRUE, Reverse(skel.teardowns)))
  /\ pc' = "returned"
  /\ UNCHANGED <<given, parameters, err, skel, k, calls, first, flat, flatOut>>

\* the caller calls get_combinations again on the same object
CallAgain ==
  /\ pc = "returned" /\ calls = 1
  /\ calls' = 2 /\ first' = combinations
  /\ pc' = "call" /\ combinations' = <<>> /\ skel' = NoSkel /\ k' = 0
  /\ UNCHANGED <<given, parameters, err, flat, flatOut>>

Next == Call \/ Extract \/ Iterate \/ Return
NextTwice == Next \/ CallAgain

\* ------------------------------------------------- specifications given
Start(prm) ==
  /\ given = prm /\ parameters = prm
  /\ pc = "call" /\ err = "" /\ skel = NoSkel /\ combinations = <<>>
  /\ k = 0 /\ calls = 1 /\ first = <<>>
  /\ flat = <<>> /\ flatOut = [err |-> "unset", combos |-> <<>>]

Spec0(main, tbl) == [hasMain |-> TRUE, main |-> main, tbl |-> tbl]

LevelParam == <<"x0", "x1", "x2", "x3", "x4">>
Lit(n) == EDict(<<KV("do", n)>>)
Sweep(base, len) ==
  IF len = 1 THEN Scalar(base + 1) ELSE List([j \in 1..len |-> base + j])

\* the template table of the well-formed specifications
Templates ==
  <<KV("T", Top("dict", TRUE, FALSE,
                <<KV(Plain("a"), Scalar(1)), KV(Plain("b"), List(<<1, 2>>))>>)),
    KV("E", Top("dict", FALSE, TRUE, <<KV(Plain("a"), Scalar(0))>>))>>

\* level i_level's setup or teardown in one of the one-entry styles
OneEntry(style, n) ==
  IF style = "none" THEN Absent
  ELSE IF style = "lit" THEN Present(<<Lit(n)>>)
  ELSE Present(<<EStr("T")>>)
Styles == <<"none", "lit", "tmpl">>

\* the leaf tests: a test of its own parameter, a test overriding the
\* innermost outer parameter, a test overriding x0 under a suffixed name
TestKinds == <<"own", "override", "suffixed">>
LeafTest(kind, n) ==
  IF kind = "own"
  THEN Node(Present(<<EStr("T")>>), Absent, "voltage",
            <<KV(Plain("y"), List(<<1, 2>>))>>, <<>>)
  ELSE IF kind = "override"
  THEN Node(Absent, Present(<<EStr("E")>>), NoneV,
            <<KV(Plain(LevelParam[n]), List(<<7>>))>>, <<>>)
  ELSE Node(Present(<<Lit(9)>>), Present(<<ENone>>), NoneV,
            <<KV(Zip("x0", "g"), List(<<8, 9>>)),
              KV(Zip("y", "g"), List(<<1, 2>>))>>, <<>>)
LeafTests(nt, rot, n) ==
  [i \in 1..nt |-> LeafTest(TestKinds[((i - 1 + rot) % 3) + 1], n)]

\* the chain of levels i..n with lens[i] values of LevelParam[i] each
RECURSIVE Chain(_, _, _, _)
Chain(lens, i, style, tests) ==
  Node(OneEntry(style, i), OneEntry(style, 100 + i),
       IF i = 1 THEN "current" ELSE NoneV,
       <<KV(Plain(LevelParam[i]), Sweep(10 * i, lens[i]))>>,
       IF i = Len(lens) THEN tests ELSE <<Chain(lens, i + 1, style, tests)>>)

\* the style of the levels' lists changes with the tests and the depth
SweepSpecs ==
  { Spec0(Chain(lens, 1, Styles[((rot + Len(lens)) % 3) + 1],
                LeafTests(nt, rot, Len(lens))), Templates) :
      lens \in UNION {[1..n -> 1..MaxLen] : n \in 1..MaxLevels},
      nt \in 1..MaxTests, rot \in 0..2 }

Init == \E prm \in SweepSpecs : Start(prm)

Spec == Init /\ [][Next]_vars

\* --- specifications that differ in their setup and teardown lists
SetupShapes ==
  {"absent", "empty", "lit", "two", "none", "tmpl", "nested", "unknown",
   "scalar", "list"}
TeardownShapes == {"absent", "empty", "lit", "two"}
Shaped(shp) ==
  IF shp = "absent" THEN Absent
  ELSE IF shp = "empty" THEN Present(<<>>)
  ELSE IF shp = "lit" THEN Present(<<Lit(1)>>)
  ELSE IF shp = "two" THEN Present(<<Lit(1), Lit(2)>>)
  ELSE IF shp = "none" THEN Present(<<ENone>>)
  ELSE IF shp = "tmpl" THEN Present(<<EStr("T")>>)
  ELSE IF shp = "nested"
  THEN Present(<<EList(<<EStr("T")>>), EList(<<ENone, Lit(3)>>)>>)
  ELSE IF shp = "unknown" THEN Present(<<EStr("U")>>)
  ELSE IF shp = "scalar" THEN Present(<<EStr("S")>>)
  ELSE Present(<<EStr("L")>>)

\* the templates, a top-level scalar and a top-level list
MixedTable ==
  Templates \o <<KV("S", Top("scalar", FALSE, FALSE, <<>>)),
                 KV("L", Top("list", FALSE, FALSE, <<>>))>>

ShapedTest(shp) ==
  Node(Shaped(shp), Present(<<EStr("E")>>), NoneV,
       <<KV(Plain("y"), List(<<1, 2>>))>>, <<>>)

\* n levels of two values each; the entry point's lists have shapes a, b
ShapedChain(n, a, b, tests) ==
  LET inner == Node(Present(<<Lit(5)>>), Present(<<Lit(6)>>), NoneV,
                    <<KV(Plain("x1"), List(<<21, 22>>))>>, tests)
  IN  Node(Shaped(a), Shaped(b), "current",
           <<KV(Plain("x0"), List(<<11, 12>>))>>,
           IF n = 1 THEN tests ELSE <<inner>>)

SetupSpecs ==
  { Spec0(ShapedChain(n, a, b, [i \in 1..nt |-> ShapedTest(c)]), MixedTable) :
      n \in 1..2, a \in SetupShapes, b \in TeardownShapes, c \in SetupShapes,
      nt \in 1..MaxTests }

InitSetup == \E prm \in SetupSpecs : Start(prm)
SpecSetup == InitSetup /\ [][Next]_vars
\* the same specifications, each object passed to get_combinations twice
SpecTwice == InitSetup /\ [][NextTwice]_vars

\* --- specifications with two tagged parameters at one level
ZipTags == {NoneV, "a", "b", ""}
ZipParams(t1, l1, t2, l2) ==
  <<KV(MkName("p", t1), List([j \in 1..l1 |-> 30 + j])),
    KV(MkName("q", t2), List([j \in 1..l2 |-> 40 + j]))>>
ZipChain(loc, zp) ==
  LET test  == Node(Present(<<Lit(9)>>), Absent, NoneV,
                    <<KV(Plain("y"), Scalar(1))>> \o (IF loc = 2 THEN zp ELSE <<>>),
                    <<>>)
      inner == Node(Present(<<Lit(5)>>), Present(<<Lit(6)>>), NoneV,
                    <<KV(Plain("x1"), Scalar(21))>> \o (IF loc = 1 THEN zp ELSE <<>>),
                    <<test>>)
  IN  Node(Present(<<Lit(1)>>), Present(<<Lit(2)>>), "current",
           <<KV(Plain("x0"), Scalar(11))>> \o (IF loc = 0 THEN zp ELSE <<>>),
           <<inner>>)

ZipSpecs ==
  { Spec0(ZipChain(loc, ZipParams(t1, l1, t2, l2)), Templates) :
      loc \in 0..2, t1 \in ZipTags, t2 \in ZipTags,
      l1 \in 1..(MaxLen + 1), l2 \in 1..(MaxLen + 1) }

InitZip == \E prm \in ZipSpecs : Start(prm)
SpecZip == InitZip /\ [][Next]_vars

\* --- specifications that differ in their nesting
Leaf == Node(Absent, Absent, NoneV, <<KV(Plain("p"), Scalar(1))>>, <<>>)
Inner(kids) == Node(Absent, Absent, NoneV, <<KV(Plain("p"), Scalar(1))>>, kids)
\* what stands beside the first nested mapping of a mapping
Siblings == {EmptyDict, Leaf, Inner(<<Leaf>>)}

RECURSIVE Trees(_)
Trees(d) ==
  IF d = 0 THEN {EmptyDict, Leaf}
  ELSE {EmptyDict, Leaf} \cup
       UNION { { Inner(<<fst>> \o others) :
                   fst \in Trees(d - 1), others \in [1..(w - 1) -> Siblings] } :
               w \in 1..MaxKids }

StructSpecs ==
  { Spec0(main, <<>>) : main \in Trees(MaxDepth) } \cup
  { [hasMain |-> FALSE, main |-> EmptyDict,
     tbl |-> <<KV("outer", Top("dict", hs, FALSE, <<>>))>>] : hs \in BOOLEAN }

InitStruct == \E prm \in StructSpecs : Start(prm)
SpecStruct == InitStruct /\ [][Next]_vars

\* ------------------------------------------------------- claims, shared
Returned == pc = "returned"
Raised == pc = "raised"
Count(seq, ty) == Cardinality({i \in 1..Len(seq) : seq[i].type = ty})

\* the levels of the specification given, entry point first, and its leaf
\* tests: the chain follows the first nested mapping until its mappings
\* hold no mapping
RECURSIVE GivenLevels(_)
GivenLevels(node) ==
  IF node.kids # <<>> /\ HasDictValue(node.kids[1])
  THEN <<node>> \o GivenLevels(node.kids[1]) ELSE <<node>>
GivenTests == GivenLevels(given.main)[Len(GivenLevels(given.main))].kids
PureNames(node) == {PureName(node.params[i].key) : i \in 1..Len(node.params)}
OuterNames ==
  UNION {PureNames(GivenLevels(given.main)[i]) :
           i \in 1..Len(GivenLevels(given.main))}

\* the test combinations of the list built so far, as positions
CombAt == {m \in 1..Len(combinations) : combinations[m].type = "comb"}
\* the setup events that open a test block before position m
BlocksBefore(m) ==
  Cardinality({i \in 1..m : combinations[i].type = "setup"
                             /\ combinations[i].whole /\ i > 1})
\* the test combinations right before position m in its block
RECURSIVE RunBefore(_)
RunBefore(m) ==
  IF m > 1 /\ combinations[m - 1].type = "comb" THEN 1 + RunBefore(m - 1)
  ELSE 0

\* ---------------------------------------------------------------- C1
\* C1: in every returned sequence the number of setup events equals the
\* number of teardown events.
C1_PairedCount ==
  Returned => Count(combinations, "setup") = Count(combinations, "teardown")

\* C1 witness: a returned sequence in which a restart pair was emitted
\* between the blocks of two leaf tests
C1_Witness ==
  /\ Returned /\ Len(skel.tests) = 2
  /\ \E m \in 1..Len(combinations) :
        combinations[m].type = "setup" /\ ~combinations[m].whole
  /\ Count(combinations, "setup") >= 6

\* ---------------------------------------------------------------- C2
\* C2 as stated: every test combination of a returned sequence has the
\* composite index [i_0, ..., i_(n-1), j] (n outer levels, i_k the index
\* of the level-k outer combination of its outer tuple, j its position
\* among the combinations of its test for that tuple) and the test index
\* of its test, whatever the number of entries of the setup lists.
C2_AsStated ==
  Returned =>
    \A m \in CombAt :
      \A b \in {BlocksBefore(m) - 1} :
        \A t \in {OuterTuples(skel)[(b \div Len(GivenTests)) + 1]} :
          /\ combinations[m].comb.index =
               [i \in 1..(Len(GivenLevels(given.main)) + 1) |->
                  IF i <= Len(GivenLevels(given.main)) THEN t[i] - 1
                  ELSE RunBefore(m)]
          /\ Get(combinations[m].comb.kv, "__index_test")
               = b % Len(GivenTests)

\* ---------------------------------------------------------------- C3
\* C3: every test combination emitted for a leaf test carries, for each
\* parameter the test defines under a name that also occurs at an outer
\* level, one of the test's own values for that name.
C3_TestValuesOverride ==
  \A m \in CombAt :
    \A t \in {GivenTests[Get(combinations[m].comb.kv, "__index_test") + 1]} :
      \A i \in 1..Len(t.params) :
        PureName(t.params[i].key) \in OuterNames =>
          Get(combinations[m].comb.kv, PureName(t.params[i].key))
            \in {t.params[i].val.items[j] : j \in 1..Len(t.params[i].val.items)}

\* C3 witness: a returned sequence holding a combination of the test that
\* overrides the innermost swept parameter and one of the test that
\* overrides x0 under a zip-suffixed name, after the outer value changed
C3_Witness ==
  /\ Returned /\ Len(skel.outer_combinations[1]) = 2
  /\ \E m \in CombAt : \E n \in CombAt :
        /\ Get(combinations[m].comb.kv, "x0") = 8
        /\ Get(combinations[m].comb.kv, "__index_0") = 1
        /\ Get(combinations[n].comb.kv, "__index_0") = 1
        /\ HasKey(combinations[n].comb.kv, "x1")
        /\ Get(combinations[n].comb.kv, "x1") = 7

\* ------------------------------------------ flat mappings (SpecPC inputs)
PCBases == <<"p", "q", "r">>
PCTags == {NoneV, "a", "b", ""}
\* -1 stands for a scalar, n >= 0 for a list of n values
PCShapes == (-1)..MaxLen

MkValue(i, shp) ==
  IF shp = -1 THEN Scalar(10 * i)
  ELSE List([j \in 1..shp |-> 10 * i + j])

FlatInputs ==
  UNION {
    { [i \in 1..n |-> KV(MkName(PCBases[i], tg[i]), MkValue(i, sh[i]))] :
        tg \in [1..n -> PCTags], sh \in [1..n -> PCShapes] } :
    n \in 0..Len(PCBases) }

NoOut == [err |-> "unset", combos |-> <<>>]

InitPC ==
  /\ flat \in FlatInputs
  /\ flatOut = NoOut
  /\ given = <<>> /\ parameters = <<>> /\ pc = "pc" /\ err = ""
  /\ skel = <<>> /\ combinations = <<>> /\ k = 0 /\ calls = 0 /\ first = <<>>

Combinations ==
  /\ pc = "pc"
  /\ pc' = "pcdone"
  /\ flatOut' = PCombinations(flat)
  /\ UNCHANGED <<given, parameters, err, skel, combinations, k, calls, first,
                 flat>>

NextPC == Combinations

SpecPC == InitPC /\ [][NextPC]_vars

\* ---------------------------------------------------------------- C4
\* the tuples of the full cartesian product over the value lists, as
\* mappings from pure names, that satisfy Keep
TupleDict(p, t) ==
  DictZip([i \in 1..Len(p) |-> PureName(p[i].key)],
          [i \in 1..Len(p) |-> p[i].val.items[t[i]]])
KeptTuples(p, Keep(_)) ==
  LET ts  == Product([i \in 1..Len(p) |-> Len(p[i].val.items)])
      sel == Positions(ts, Keep, 1)
  IN  [n \in 1..Len(sel) |-> TupleDict(p, ts[sel[n]])]

Tagged(p, i) == get_zip_group(p[i].key) # NoneV
SameGroup(p, i, j) ==
  Tagged(p, i) /\ get_zip_group(p[i].key) = get_zip_group(p[j].key)

\* every member of a zip group at the same position
DiagonalAll(p, t) ==
  \A i, j \in 1..Len(p) : SameGroup(p, i, j) => t[i] = t[j]
\* every member with more than one value of a zip group with a non-empty
\* tag at the same position
DiagonalSwept(p, t) ==
  \A i, j \in 1..Len(p) :
     (/\ SameGroup(p, i, j) /\ get_zip_group(p[i].key) # ""
      /\ Len(p[i].val.items) > 1 /\ Len(p[j].val.items) > 1) => t[i] = t[j]

NoEmptyList(p) == \A i \in 1..Len(p) : Len(p[i].val.items) >= 1
EqualSweptGroups(p) ==
  \A i, j \in 1..Len(p) :
     (/\ SameGroup(p, i, j) /\ get_zip_group(p[i].key) # ""
      /\ Len(p[i].val.items) > 1 /\ Len(p[j].val.items) > 1)
     => Len(p[i].val.items) = Len(p[j].val.items)

\* C4 as stated: whenever combinations returns, it returns exactly the
\* tuples of the cartesian product in which all members of each zip group
\* sit at the same position (cartesian order, pure names).
C4_AsStated ==
  (pc = "pcdone" /\ flatOut.err = "")
    => flatOut.combos = KeptTuples(flat, LAMBDA t : DiagonalAll(flat, t))

\* C4 amended: on a flat mapping without empty lists whose zip groups'
\* members of more than one value have equal lengths, combinations returns
\* exactly the tuples of the cartesian product in which the members WITH
\* MORE THAN ONE VALUE of each zip group with a non-empty tag sit at the
\* same position, in cartesian order (first parameter slowest) under pure
\* names; hence 1 combination for all-singleton input, the product of the
\* lengths without tags, and L for one zip group of k members of length L.
C4_Combinations ==
  (pc = "pcdone" /\ NoEmptyList(flat) /\ EqualSweptGroups(flat)) =>
    /\ flatOut.err = ""
    /\ flatOut.combos = KeptTuples(flat, LAMBDA t : DiagonalSwept(flat, t))
    /\ (\A i \in 1..Len(flat) : Len(flat[i].val.items) = 1)
         => Len(flatOut.combos) = 1
    /\ (\A i \in 1..Len(flat) : ~Tagged(flat, i))
         => Len(flatOut.combos) =
              SeqProd([i \in 1..Len(flat) |-> Len(flat[i].val.items)])
    /\ (/\ flat # <<>>
        /\ \A i \in 1..Len(flat) :
              /\ SameGroup(flat, 1, i) /\ get_zip_group(flat[1].key) # ""
              /\ Len(flat[i].val.items) = Len(flat[1].val.items))
         => Len(flatOut.combos) = Len(flat[1].val.items)

\* C4 witness: a returned result for a zip group of two swept members
\* around an untagged swept parameter: 4 of the 8 tuples are kept
C4_Witness ==
  /\ pc = "pcdone" /\ flatOut.err = "" /\ Len(flat) = 3
  /\ get_zip_group(flat[1].key) = "a" /\ get_zip_group(flat[3].key) = "a"
  /\ get_zip_group(flat[2].key) = NoneV
  /\ \A i \in 1..3 : Len(flat[i].val.items) = 2
  /\ Len(flatOut.combos) = 4

\* ---------------------------------------------------------------- C5
\* the mappings ParameterCombination is built from: levels and leaf tests
GivenNodes ==
  {GivenLevels(given.main)[i] : i \in 1..Len(GivenLevels(given.main))}
    \cup {GivenTests[i] : i \in 1..Len(GivenTests)}
Done == pc \in {"raised", "returned"}
\* two parameters of p with the same non-empty tag and lists of different
\* lengths, both of at least least values
DifferingPair(p, least) ==
  \E i, j \in 1..Len(p) :
     /\ SameGroup(p, i, j) /\ get_zip_group(p[i].key) # ""
     /\ Len(p[i].val.items) # Len(p[j].val.items)
     /\ Len(p[i].val.items) >= least /\ Len(p[j].val.items) >= least

\* C5 as stated: whenever two parameters of one level carry the same zip
\* tag and their lists differ in length, get_combinations fails with the
\* "Mismatch in zip_group length" ValueError.
C5_AsStated ==
  (Done /\ \E node \in GivenNodes : DifferingPair(node.params, 1))
    => (Raised /\ err = "ValueError:zip")

\* C5 amended: get_combinations fails with the "Mismatch in zip_group
\* length" ValueError and returns no sequence whenever two parameters of
\* one level carry the same non-empty zip tag and their lists differ in
\* length AND BOTH HAVE MORE THAN ONE VALUE; a member with one value is
\* not compared, and without such a pair the call returns.
C5_ZipMismatch ==
  Done =>
    IF \E node \in GivenNodes : DifferingPair(node.params, 2)
    THEN Raised /\ err = "ValueError:zip" /\ combinations = <<>>
    ELSE Returned

\* C5 witness: the call failed with the shape error on a leaf test whose
\* group members have 2 and 3 values, after the outer levels were read
C5_Witness ==
  /\ Raised /\ err = "ValueError:zip"
  /\ Len(GivenTests[1].params) = 3
  /\ Len(GivenTests[1].params[2].val.items) = 2
  /\ Len(GivenTests[1].params[3].val.items) = 3

\* ---------------------------------------------------------------- C6
\* a level of the chain below node has more than one nested mapping, one
\* of which holds a nested mapping itself
RECURSIVE ParallelBelow(_)
ParallelBelow(node) ==
  IF node.kids = <<>> THEN FALSE
  ELSE IF Len(node.kids) > 1
          /\ \E i \in 1..Len(node.kids) : node.kids[i].kids # <<>>
  THEN TRUE
  ELSE ParallelBelow(node.kids[1])

\* C6: get_combinations fails with the parallel-outer-loops ValueError,
\* with no output, exactly when some level of the chain below the entry
\* point has more than one child mapping and one of them contains a
\* nested mapping; sibling mappings without nested mappings are accepted.
C6_ParallelLoops ==
  (Done /\ given.hasMain) =>
    /\ ParallelBelow(given.main) <=> (Raised /\ err = "ValueError:parallel")
    /\ err = "ValueError:parallel" => (combinations = <<>> /\ parameters = given)

\* C6 witness: the structural error for a level below the entry point
\* whose first child is a leaf and whose second child holds a mapping
C6_Witness ==
  /\ Raised /\ err = "ValueError:parallel"
  /\ Len(given.main.kids) = 1 /\ Len(given.main.kids[1].kids) = 2
  /\ given.main.kids[1].kids[1].kids = <<>>
  /\ given.main.kids[1].kids[2].kids # <<>>

\* ---------------------------------------------------------------- C7
\* C7: a specification without the key "main" and a specification whose
\* entry point holds no nested mapping both make get_combinations fail
\* with a ValueError and return no sequence.
C7_StructuralErrors ==
  Done =>
    /\ ~given.hasMain
         => (Raised /\ err = "ValueError:nomain" /\ combinations = <<>>)
    /\ (given.hasMain /\ given.main.kids = <<>>)
         => (Raised /\ err = "ValueError:noinner" /\ combinations = <<>>)

\* C7 witness: the call failed on an entry point that has a parameter but
\* no nested mapping
C7_Witness ==
  /\ Raised /\ err = "ValueError:noinner"
  /\ given.hasMain /\ given.main.params # <<>> /\ given.main.kids = <<>>

\* ---------------------------------------------------------------- C8
\* the setup and teardown entries of the specification given, flattened
RECURSIVE Strings(_)
Strings(entries) ==
  IF entries = <<>> THEN {}
  ELSE (IF Head(entries).k = "str" THEN {Head(entries).name}
        ELSE IF Head(entries).k = "list" THEN Strings(Head(entries).sub)
        ELSE {})
       \cup Strings(Tail(entries))
GivenStrings ==
  UNION {Strings(node.setup.entries) \cup Strings(node.teardown.entries) :
           node \in GivenNodes}

\* C8 as stated: a string entry that is no key of the top-level
\* specification, or that names a top-level value that is not a mapping
\* (a scalar or a list), fails with the "Template not found" ValueError.
C8_AsStated ==
  (Done /\ \E name \in GivenStrings :
              \/ ~HasKey(given.tbl, name)
              \/ Get(given.tbl, name).k # "dict")
    => (Raised /\ err = "ValueError:template")

\* ---------------------------------------------------------------- C9
RECURSIVE NoName(_)
NoName(e) ==
  /\ e.k # "str"
  /\ e.k = "list" => \A i \in 1..Len(e.sub) : NoName(e.sub[i])

\* entry e of an event stands for entry g of the specification
ResolvedFrom(e, g) ==
  IF g.k # "str" THEN e = g
  ELSE /\ e.k = "list" /\ e.sub # <<>>
       /\ \A i \in 1..Len(e.sub) :
            /\ e.sub[i].k = "dict"
            /\ {e.sub[i].kv[n].key : n \in 1..Len(e.sub[i].kv)}
                 = PureNames(Get(given.tbl, g.name))
BodyResolves(body, gs) ==
  /\ Len(body) = Len(gs)
  /\ \A i \in 1..Len(body) : ResolvedFrom(body[i], gs[i])

GivenSetups ==
  flatten_multidimensional_list(
    [i \in 1..Len(GivenLevels(given.main)) |->
       Popped(GivenLevels(given.main)[i].setup)])
GivenTeardowns ==
  flatten_multidimensional_list(
    [i \in 1..Len(GivenLevels(given.main)) |->
       Popped(GivenLevels(given.main)[i].teardown)])
\* the leaf test whose block position m lies in
TestAt(m) == GivenTests[((BlocksBefore(m) - 1) % Len(GivenTests)) + 1]

\* C9: no setup or teardown event of a returned sequence holds a template
\* name: each entry of the level-wide and of the test-local events stands
\* for the entry of the specification at its place, a string replaced by
\* the mappings of the template it names, None and literal mappings as
\* they were given.
C9_Resolved ==
  Returned =>
    /\ \A m \in 1..Len(combinations) :
         \A i \in 1..Len(combinations[m].body) : NoName(combinations[m].body[i])
    /\ BodyResolves(combinations[1].body, GivenSetups)
    /\ BodyResolves(Reverse(combinations[Len(combinations)].body),
                    GivenTeardowns)
    /\ \A m \in 2..(Len(combinations) - 1) :
         /\ (combinations[m].whole /\ combinations[m].type = "setup")
              => BodyResolves(combinations[m].body,
                   flatten_multidimensional_list(TestAt(m).setup.entries))
         /\ (combinations[m].whole /\ combinations[m].type = "teardown")
              => BodyResolves(combinations[m].body,
                   flatten_multidimensional_list(TestAt(m).teardown.entries))

\* C9 witness: a returned sequence whose level-wide setup holds the
\* mappings of a template and in which a test's setup event holds the
\* mappings of a template, None and a literal mapping
C9_Witness ==
  /\ Returned /\ combinations[1].body # <<>>
  /\ combinations[1].body[1].k = "list"
  /\ \E m \in 2..Len(combinations) :
       /\ combinations[m].type = "setup" /\ Len(combinations[m].body) = 3
       /\ combinations[m].body[1].k = "list"
       /\ combinations[m].body[2] = ENone
       /\ combinations[m].body[3].k = "dict"

\* ---------------------------------------------------------------- C10
\* C10 as stated: a call leaves the specification object as it was given,
\* and a second call on the same object returns the sequence the first
\* call returned.
C10_AsStated ==
  /\ Returned => parameters = given
  /\ (Returned /\ calls = 2) => combinations = first

\* ---------------------------------------------------------------- C11
\* the setup event that opens the first test block of outer tuple kk
FirstTestAt(kk) ==
  CHOOSE m \in 2..Len(combinations) :
    /\ combinations[m].type = "setup" /\ combinations[m].whole
    /\ BlocksBefore(m) = (kk - 1) * Len(GivenTests) + 1

\* tuple kk of ts begins a new iteration of a loop that encloses level i
EnclosingAdvanced(ts, kk, i) ==
  kk > 1 /\ \E j \in 1..i : ts[kk][j] # ts[kk - 1][j]

\* a teardown and a setup of level i for every level whose index has just
\* reset, outermost first
ExpectedRestarts(ts, kk) ==
  Concat([i \in 1..(Len(ts[kk]) - 1) |->
            IF EnclosingAdvanced(ts, kk, i)
            THEN <<Event("teardown", FALSE, <<skel.teardowns[i + 1]>>),
                   Event("setup", FALSE, <<skel.setups[i + 1]>>)>>
            ELSE <<>>])

\* the events right before position q are exactly those of E
RestartsBefore(q, E) ==
  /\ q - Len(E) - 1 >= 1
  /\ \A n \in 1..Len(E) : combinations[q - Len(E) - 1 + n] = E[n]
  /\ combinations[q - Len(E) - 1].whole

\* C11 as stated: before the tests of an outer tuple a teardown event
\* followed by a setup event of level i >= 1 is emitted exactly when an
\* enclosing loop has just begun a new iteration (level i's index has
\* reset to 0): once per restart, never for the first tuple and never
\* while only deeper levels iterate, for any number of outer levels.
C11_AsStated ==
  Returned =>
    \A kk \in 1..Len(OuterTuples(skel)) :
      RestartsBefore(FirstTestAt(kk), ExpectedRestarts(OuterTuples(skel), kk))

\* the same for specifications of at most two outer levels
C11_TwoLevels ==
  (Returned /\ Len(GivenLevels(given.main)) <= 2) => C11_AsStated

\* ---------------------------------------------------------------- C12
\* the per-level entries as the returned sequence lists them, in level
\* order: the initial setup event and the final teardown event reversed
LevelSetups == combinations[1].body
LevelTeardowns == Reverse(combinations[Len(combinations)].body)
\* the levels can be told apart by their entries
DistinctLevels ==
  /\ Len(LevelSetups) = Len(LevelTeardowns)
  /\ \A i, j \in 1..Len(LevelSetups) :
       i # j => (LevelSetups[i] # LevelSetups[j]
                 /\ LevelTeardowns[i] # LevelTeardowns[j])

\* event a sets up / tears down the level listed at place j
SetsUp(a, j) ==
  IF a = 1 THEN TRUE
  ELSE /\ combinations[a].type = "setup" /\ ~combinations[a].whole
       /\ combinations[a].body = <<LevelSetups[j]>>
TearsDown(a, j) ==
  /\ a > 1 /\ combinations[a].type = "teardown" /\ ~combinations[a].whole
  /\ combinations[a].body = <<LevelTeardowns[j]>>

\* at position m the level at place j has been torn down and not set up
\* again
TornDownBefore(m, j) ==
  \E a \in 1..(m - 1) :
     TearsDown(a, j) /\ \A b \in (a + 1)..(m - 1) : ~SetsUp(b, j)
\* after position m the level at place j is set up before any test starts
SetUpAfter(m, j) ==
  \E a \in (m + 1)..Len(combinations) :
     /\ SetsUp(a, j)
     /\ \A b \in (m + 1)..(a - 1) :
          ~combinations[b].whole /\ combinations[b].type # "comb"

\* C12 as stated: the final teardown event lists the levels' teardowns
\* innermost first, the reverse of the level order of the initial setup
\* event, and whenever the teardown of an outer level is emitted in
\* mid-sequence every deeper outer level has been torn down before it and
\* is set up again after it.
C12_AsStated ==
  (Returned /\ DistinctLevels) =>
    /\ BodyResolves(LevelSetups, GivenSetups)
    /\ BodyResolves(LevelTeardowns, GivenTeardowns)
    /\ \A m \in 2..(Len(combinations) - 1) :
         \A i \in 1..Len(LevelTeardowns) :
            TearsDown(m, i) =>
              \A j \in (i + 1)..Len(LevelTeardowns) :
                 TornDownBefore(m, j) /\ SetUpAfter(m, j)

\* the same for specifications of at most two outer levels
C12_TwoLevels ==
  (Returned /\ Len(GivenLevels(given.main)) <= 2) => C12_AsStated

\* ---------------------------------------------------------------- C13
\* the outer tuple (per-level indices) and the test of the combination at
\* position m
BlockKey(m) ==
  SubSeq(combinations[m].comb.index, 1, Len(combinations[m].comb.index) - 1)
    \o <<Get(combinations[m].comb.kv, "__index_test")>>
\* lexicographic order, the first place weighing most
LexLess(a, b) ==
  \E i \in 1..Len(a) : a[i] < b[i] /\ \A j \in 1..(i - 1) : a[j] = b[j]
\* the first test combination at or after position p, 0 if there is none
RECURSIVE NextComb(_)
NextComb(p) ==
  IF p > Len(combinations) THEN 0
  ELSE IF combinations[p].type = "comb" THEN p
  ELSE NextComb(p + 1)
\* the leaf test the combination at position m says it belongs to
OwnTest(m) == GivenTests[Get(combinations[m].comb.kv, "__index_test") + 1]

\* what stands right before and right after the combination at m
EnclosedAt(m, test) ==
  /\ IF combinations[m - 1].type = "comb"
     THEN BlockKey(m - 1) = BlockKey(m)
     ELSE /\ m - 1 > 1
          /\ combinations[m - 1].type = "setup" /\ combinations[m - 1].whole
          /\ BodyResolves(combinations[m - 1].body,
                          flatten_multidimensional_list(test.setup.entries))
  /\ IF combinations[m + 1].type = "comb"
     THEN BlockKey(m + 1) = BlockKey(m)
     ELSE /\ m + 1 < Len(combinations)
          /\ combinations[m + 1].type = "teardown" /\ combinations[m + 1].whole
          /\ BodyResolves(combinations[m + 1].body,
                          flatten_multidimensional_list(test.teardown.entries))
\* the block after the one of m belongs to a later (outer tuple, test)
OrderedAt(m, next) ==
  combinations[m + 1].type # "comb" /\ next # 0
    => LexLess(BlockKey(m), BlockKey(next))

\* C13: a returned sequence starts with the setup event of all levels'
\* setups and ends with the final teardown event; every test combination
\* stands in a block opened by a setup event with its own test's resolved
\* setup and closed by a teardown event with its own test's resolved
\* teardown, holding only combinations of that test and outer tuple; the
\* blocks come in declaration order of the tests within an outer tuple
\* and outermost-slowest across the tuples, one block per tuple and test.
C13_BlockOrder ==
  Returned =>
    /\ combinations[1].type = "setup" /\ combinations[1].whole
    /\ BodyResolves(combinations[1].body, GivenSetups)
    /\ combinations[Len(combinations)].type = "teardown"
    /\ combinations[Len(combinations)].whole
    /\ BodyResolves(Reverse(combinations[Len(combinations)].body),
                    GivenTeardowns)
    /\ \A m \in CombAt :
         /\ m > 1 /\ m < Len(combinations)
         /\ Get(combinations[m].comb.kv, "__index_test") < Len(GivenTests)
         /\ EnclosedAt(m, OwnTest(m))
         /\ OrderedAt(m, NextComb(m + 1))
         /\ \A i \in 1..Len(skel.outer_combinations) :
              combinations[m].comb.index[i] < Len(skel.outer_combinations[i])
    /\ BlockKey(NextComb(1))
         = [i \in 1..(Len(GivenLevels(given.main)) + 1) |-> 0]
    /\ Cardinality({m \in 2..Len(combinations) :
                       combinations[m].type = "setup" /\ combinations[m].whole})
         = Len(GivenTests)
             * SeqProd([i \in 1..Len(skel.outer_combinations) |->
                          Len(skel.outer_combinations[i])])

\* C13 witness: a returned sequence of two leaf tests under three outer
\* levels of two values each: sixteen blocks
C13_Witness ==
  /\ Returned /\ Len(GivenTests) = 2 /\ Len(skel.outer_combinations) = 3
  /\ \A i \in 1..3 : Len(skel.outer_combinations[i]) = 2
  /\ Cardinality({m \in 2..Len(combinations) :
                    combinations[m].type = "setup" /\ combinations[m].whole})
       = 16
====
